---- MODULE Spec2Model ----
(***************************************************************************)
(* A model of the view adapters of iterators.h (namespace iterators).      *)
(*                                                                         *)
(* Containers live in a memory of storage cells.  A view holds, per        *)
(* member (iterable_ / first_ / second_ / data_ of ChainedBase), the       *)
(* address of the cell it iterates, and for the classes that derive from   *)
(* WithSizeAndEmpty the pointer data_ that size()/empty() read.            *)
(* An underlying cursor is the number of increments from its begin: the    *)
(* cursor of a collection with n elements is at end when it equals n.      *)
(***************************************************************************)
EXTENDS Integers, Sequences, FiniteSets, TLC

\* bounds of the model
MaxVal == 2
MaxLen == 5
MaxLen2 == 3
MaxOuter == 5
MaxInner == 2
MaxSmall == 3
MaxComposed == 2
MaxDepth == 2

Vals == 1..MaxVal

SeqsUpTo(S, n) == UNION {[1..k -> S] : k \in 0..n}

Rev(s) == [i \in 1..Len(s) |-> s[Len(s) + 1 - i]]

Min(a, b) == IF a < b THEN a ELSE b

RECURSIVE SumLen(_)
SumLen(ss) == IF ss = <<>> THEN 0 ELSE Len(Head(ss)) + SumLen(Tail(ss))

VARIABLES
  mem,      \* storage cells: address -> [life, elems]
  view,     \* the view the caller holds
  inner,    \* the view held by value inside `view` (after a chained operator)
  consumed, \* TRUE once a chained operator has moved the original view away
  pc,       \* "view": constructed, "loop": inside a traversal, "done"
  rev,      \* the traversal in progress runs from rbegin() to rend()
  it,       \* the cursor of the traversal
  end,      \* the end cursor it is compared with
  out,      \* the items the traversal has yielded so far
  advances, \* number of operator++ calls on `it`
  isz,      \* {what size() of `inner` returned to its rbegin()}, else {}
  sz,       \* {result of the last size() call on `view`}, {} before any call
  emp,      \* {result of the last empty() call on `view`}, {} before any call
  other,    \* a copy the caller took of the cursor `it`, and its position
  calls,    \* the arguments the mapping function was invoked with, in order
  ty,       \* the type of the view a factory call has selected
  prev      \* <<[rev, out]>> of the traversal completed before, else <<>>

vars == <<mem, view, inner, consumed, pc, rev, it, end, out, advances, isz, sz,
          emp, other, calls, ty, prev>>

None == "none"
Inner == "inner"

\* the cells: a member (1 or 2) of the caller's containers, of the view A a
\* factory built, of the temporary B of MoveSelf, of the view D held inside
\* a composed view
Owners == {"caller", "A", "B", "D"}
AddrOf == [caller |-> <<"caller1", "caller2">>, A |-> <<"A1", "A2">>,
           B |-> <<"B1", "B2">>, D |-> <<"D1", "D2">>]
\* the objects that the pointers of an AsReferences source point at: the
\* pointer p points at element p of this cell
Heap == "heap"
Addr == {AddrOf[o][s] : o \in Owners, s \in 1..2} \cup {Heap}

NoCell == [life |-> "none", elems |-> <<>>]
NoView == [kind |-> None, src |-> <<None, None>>, data |-> None, f |-> None]
NoIt == [begin |-> 0]
NoOther == [it |-> NoIt, advances |-> 0 - 1]
NoType == [kind |-> None]

SingleKinds == {"Enumerate", "Iterate", "AsReferences", "Reverse", "Map", "Filter"}
PairKinds == {"Join", "Zip"}
Kinds == SingleKinds \cup PairKinds \cup {"Chain"}

\* the classes that derive from WithSizeAndEmpty
SizedByData == {"Enumerate", "Iterate", "AsReferences", "Reverse", "Map"}

\* the user's functions: a predicate is the set of values it accepts
Predicates == SUBSET Vals
\* "increase" is [](int& value) -> int { value += 100; return 0; }
Functions == {"add100", "square", "increase"}
PureFunctions == {"add100", "square"}

\* what f returns for the argument x
Apply(f, x) ==
  CASE f = "add100" -> x + 100
    [] f = "square" -> x * x
    [] f = "increase" -> 0

\* the value of the argument after f has run on it
Effect(f, x) == IF f = "increase" THEN x + 100 ELSE x

-----------------------------------------------------------------------------
(* Items a cursor yields.                                                  *)

Ref(a, i) == [t |-> "ref", a |-> a, i |-> i]
ChainRef(a, o, i) == [t |-> "cref", a |-> a, o |-> o, i |-> i]
Pointee(p) == [t |-> "pointee", p |-> p]
Item(position, value) == [t |-> "item", position |-> position, value |-> value]
ZippedValue(first, second) == [t |-> "zip", first |-> first, second |-> second]
Mapped(v) == [t |-> "val", v |-> v]

Null == [t |-> "null"]
\* Item() : Item(0, nullptr)
DefaultItem == Item(0, Null)
\* ZippedValue() : ZippedValue(nullptr, nullptr)
DefaultZippedValue == ZippedValue(Null, Null)

\* the value an item denotes, as the user's function or predicate sees it
RECURSIVE ValueOf(_)
ValueOf(x) ==
  CASE x.t = "ref" -> mem[x.a].elems[x.i]
    [] x.t = "cref" -> mem[x.a].elems[x.o][x.i]
    [] x.t = "pointee" -> mem[Heap].elems[x.p]
    [] x.t = "item" -> ValueOf(x.value)
    [] x.t = "zip" -> ValueOf(x.first)
    [] x.t = "val" -> x.v

-----------------------------------------------------------------------------
(* The elements of a container, in the order of its forward or of its      *)
(* reverse iterators.                                                      *)

ContainerSeq(a, r) ==
  LET fwd == [i \in 1..Len(mem[a].elems) |-> Ref(a, i)]
  IN IF r THEN Rev(fwd) ELSE fwd

\* reverse iterators that reverse the outer collection only
NestedSeq_outerOnly(a, r) ==
  LET fwd == [o \in 1..Len(mem[a].elems) |->
                [i \in 1..Len(mem[a].elems[o]) |-> ChainRef(a, o, i)]]
  IN IF r THEN Rev(fwd) ELSE fwd

NestedSeq(a, r) ==
  LET inn(o) == LET s == [i \in 1..Len(mem[a].elems[o]) |-> ChainRef(a, o, i)]
                IN IF r THEN Rev(s) ELSE s
      fwd == [o \in 1..Len(mem[a].elems) |-> inn(o)]
  IN IF r THEN Rev(fwd) ELSE fwd

-----------------------------------------------------------------------------
(* Cursors.  Every operator takes cs, the element sequences of the         *)
(* collections the cursor runs over (in the cursor's direction), and f,    *)
(* the view's function or predicate.                                       *)

\* a container's own iterator (Iterated and Reversed hand it out unchanged)
StdIterator(k) == [begin |-> k]
StdIterator_Deref(i, cs) == cs[1][i.begin + 1]
StdIterator_Inc(i) == [i EXCEPT !.begin = @ + 1]
StdIterator_Eq(a, b) == a.begin = b.begin

\* EnumeratedIterator
SetItem(i, cs) ==
  IF i.begin # i.end
    THEN [i EXCEPT !.item = Item(i.position, cs[1][i.begin + 1])]
    ELSE i

EnumeratedIterator(b, e, position, position_delta, cs) ==
  SetItem([begin |-> b, end |-> e, position |-> position,
           position_delta |-> position_delta, item |-> DefaultItem], cs)

EnumeratedIterator_Deref(i) == i.item

EnumeratedIterator_Inc(i, cs) ==
  SetItem([i EXCEPT !.begin = @ + 1, !.position = @ + i.position_delta], cs)

EnumeratedIterator_Eq(a, b) == a.begin = b.begin

\* ChainedIterator: an inner cursor is (the inner collection it runs over,
\* its offset); a value-initialised inner cursor belongs to no collection
SingularInner == [c |-> 0, k |-> 0]

IsAtEnd(i) == i.outer_begin = i.outer_end

\* an IsAtEndOfInnerCollection that never sees the end
IsAtEndOfInnerCollection_never(i) == FALSE

IsAtEndOfInnerCollection(i) == i.inner_begin = i.inner_end

InitializeInnerCollection(i, cs) ==
  IF ~IsAtEnd(i)
    THEN [i EXCEPT !.inner_begin = [c |-> i.outer_begin + 1, k |-> 0],
                   !.inner_end = [c |-> i.outer_begin + 1,
                                  k |-> Len(cs[1][i.outer_begin + 1])]]
    ELSE i

AdvanceOuterCollection(i, cs) ==
  InitializeInnerCollection([i EXCEPT !.outer_begin = @ + 1], cs)

RECURSIVE SkipEmptyInnerCollections(_, _)
SkipEmptyInnerCollections(i, cs) ==
  IF ~IsAtEnd(i) /\ IsAtEndOfInnerCollection(i)
    THEN SkipEmptyInnerCollections(AdvanceOuterCollection(i, cs), cs)
    ELSE i

ChainedIterator(b, e, cs) ==
  SkipEmptyInnerCollections(
    InitializeInnerCollection([outer_begin |-> b, outer_end |-> e,
                               inner_begin |-> SingularInner,
                               inner_end |-> SingularInner], cs), cs)

ChainedIterator_Deref(i, cs) == cs[1][i.inner_begin.c][i.inner_begin.k + 1]

\* an operator++ that moves on to the next inner collection
ChainedIterator_Inc_outer(i, cs) ==
  SkipEmptyInnerCollections(AdvanceOuterCollection(i, cs), cs)

ChainedIterator_Inc(i, cs) ==
  SkipEmptyInnerCollections([i EXCEPT !.inner_begin.k = @ + 1], cs)

ChainedIterator_Eq(a, b) == IsAtEnd(a) = IsAtEnd(b)

\* ReferencedIterator / ReferencedUniqueIterator: **begin_ / *begin_->get()
ReferencedIterator(b, e) == [begin |-> b, end |-> e]
ReferencedIterator_Deref(i, cs) == Pointee(ValueOf(cs[1][i.begin + 1]))
ReferencedIterator_Inc(i) == [i EXCEPT !.begin = @ + 1]
ReferencedIterator_Eq(a, b) == a.begin = b.begin

\* a std::unique_ptr: get() returns the pointer it holds
UniquePtr(p) == [t |-> "unique_ptr", get |-> p]

\* ReferencedUniqueIterator over a sequence of unique_ptr
ReferencedUniqueIterator(b, e) == [begin |-> b, end |-> e]

\* an operator* that always takes the front element
ReferencedUniqueIterator_Deref_front(i, cs) == Pointee(cs[1][1].get)

ReferencedUniqueIterator_Deref(i, cs) ==
  LET unique_pointer == cs[1][i.begin + 1]
      pointer == unique_pointer.get
  IN Pointee(pointer)

ReferencedUniqueIterator_Inc(i) == [i EXCEPT !.begin = @ + 1]
ReferencedUniqueIterator_Eq(a, b) == a.begin = b.begin

\* JoinedIterator
JoinedIterator(first, first_end, second, second_end) ==
  [first |-> first, first_end |-> first_end,
   second |-> second, second_end |-> second_end]

\* an operator* that tests the second cursor instead of the first
JoinedIterator_Deref_second(i, cs) ==
  IF i.second # i.second_end THEN cs[2][i.second + 1] ELSE cs[1][i.first + 1]

JoinedIterator_Deref(i, cs) ==
  IF i.first # i.first_end THEN cs[1][i.first + 1] ELSE cs[2][i.second + 1]

\* an operator++ that always advances the second cursor
JoinedIterator_Inc_second(i) == [i EXCEPT !.second = @ + 1]

JoinedIterator_Inc(i) ==
  IF i.first # i.first_end
    THEN [i EXCEPT !.first = @ + 1]
    ELSE [i EXCEPT !.second = @ + 1]

\* an operator== that compares the first cursors only
JoinedIterator_Eq_firstOnly(a, b) == a.first = b.first

JoinedIterator_Eq(a, b) == a.first = b.first /\ a.second = b.second

\* MappedIterator
MappedIterator(b, e) == [begin |-> b, end |-> e]
\* an operator* that hands out the element itself
MappedIterator_Deref_identity(i, cs, f) == Mapped(ValueOf(cs[1][i.begin + 1]))

MappedIterator_Deref(i, cs, f) == Mapped(Apply(f, ValueOf(cs[1][i.begin + 1])))
MappedIterator_Inc(i) == [i EXCEPT !.begin = @ + 1]
MappedIterator_Eq(a, b) == a.begin = b.begin

\* the arguments the mapping function is invoked with by the constructor,
\* by operator*, by operator++ and by operator==
MappedIterator_calls == <<>>
\* an operator* that evaluates the mapping function twice
MappedIterator_Deref_calls_twice(i, cs) ==
  <<cs[1][i.begin + 1], cs[1][i.begin + 1]>>

MappedIterator_Deref_calls(i, cs) == <<cs[1][i.begin + 1]>>
MappedIterator_Inc_calls == <<>>
MappedIterator_Eq_calls == <<>>

\* FilterIterator
IsEnd(i) == i.begin = i.end

\* an IsFiltered that lost its negation
IsFiltered_inverted(i, cs, f) == ValueOf(cs[1][i.begin + 1]) \in f

IsFiltered(i, cs, f) == ~(ValueOf(cs[1][i.begin + 1]) \in f)

RECURSIVE SkipFilteredEntries(_, _, _)
SkipFilteredEntries(i, cs, f) ==
  IF ~IsEnd(i) /\ IsFiltered(i, cs, f)
    THEN SkipFilteredEntries([i EXCEPT !.begin = @ + 1], cs, f)
    ELSE i

FilterIterator(b, e, cs, f) == SkipFilteredEntries([begin |-> b, end |-> e], cs, f)

FilterIterator_Deref(i, cs) == cs[1][i.begin + 1]

\* an operator++ without SkipFilteredEntries()
FilterIterator_Inc_noSkip(i, cs, f) == [i EXCEPT !.begin = @ + 1]

FilterIterator_Inc(i, cs, f) == SkipFilteredEntries([i EXCEPT !.begin = @ + 1], cs, f)

FilterIterator_Eq(a, b) == a.begin = b.begin

\* the positions at which filter_ is evaluated:
\* a loop that tests IsFiltered() at every position up to and at end_
SkipFilteredEntries_evals_atEnd(i, cs, f) ==
  [k \in 1..(i.end - i.begin + 1) |-> i.begin + k - 1]

\* while (!IsEnd() && IsFiltered()) ++begin_; IsFiltered() is reached only
\* when IsEnd() is false
RECURSIVE SkipFilteredEntries_evals(_, _, _)
SkipFilteredEntries_evals(i, cs, f) ==
  IF IsEnd(i)
    THEN <<>>
    ELSE <<i.begin>> \o (IF IsFiltered(i, cs, f)
                           THEN SkipFilteredEntries_evals(
                                  [i EXCEPT !.begin = @ + 1], cs, f)
                           ELSE <<>>)

\* ZippedIterator
ZipIsAtEnd(i) == i.first_begin = i.first_end \/ i.second_begin = i.second_end

SetValue(i, cs) ==
  IF ~ZipIsAtEnd(i)
    THEN [i EXCEPT !.value = ZippedValue(cs[1][i.first_begin + 1],
                                         cs[2][i.second_begin + 1])]
    ELSE i

ZippedIterator(first_begin, first_end, second_begin, second_end, cs) ==
  SetValue([first_begin |-> first_begin, first_end |-> first_end,
            second_begin |-> second_begin, second_end |-> second_end,
            value |-> DefaultZippedValue], cs)

ZippedIterator_Deref(i) == i.value

\* an operator++ that forgets to advance the second cursor
ZippedIterator_Inc_firstOnly(i, cs) ==
  SetValue([i EXCEPT !.first_begin = @ + 1], cs)

ZippedIterator_Inc(i, cs) ==
  SetValue([i EXCEPT !.first_begin = @ + 1, !.second_begin = @ + 1], cs)

ZippedIterator_Eq(a, b) == ZipIsAtEnd(a) = ZipIsAtEnd(b)

-----------------------------------------------------------------------------
(* The cursor operations of a view of a given kind.                        *)

ItEq(kind, a, b) ==
  CASE kind = "Enumerate" -> EnumeratedIterator_Eq(a, b)
    [] kind \in {"Iterate", "Reverse"} -> StdIterator_Eq(a, b)
    [] kind = "Chain" -> ChainedIterator_Eq(a, b)
    [] kind = "AsReferences" -> ReferencedIterator_Eq(a, b)
    [] kind = "Join" -> JoinedIterator_Eq(a, b)
    [] kind = "Map" -> MappedIterator_Eq(a, b)
    [] kind = "Filter" -> FilterIterator_Eq(a, b)
    [] kind = "Zip" -> ZippedIterator_Eq(a, b)

ItDeref(kind, i, cs, f) ==
  CASE kind = "Enumerate" -> EnumeratedIterator_Deref(i)
    [] kind \in {"Iterate", "Reverse"} -> StdIterator_Deref(i, cs)
    [] kind = "Chain" -> ChainedIterator_Deref(i, cs)
    [] kind = "AsReferences" -> ReferencedIterator_Deref(i, cs)
    [] kind = "Join" -> JoinedIterator_Deref(i, cs)
    [] kind = "Map" -> MappedIterator_Deref(i, cs, f)
    [] kind = "Filter" -> FilterIterator_Deref(i, cs)
    [] kind = "Zip" -> ZippedIterator_Deref(i)

ItInc(kind, i, cs, f) ==
  CASE kind = "Enumerate" -> EnumeratedIterator_Inc(i, cs)
    [] kind \in {"Iterate", "Reverse"} -> StdIterator_Inc(i)
    [] kind = "Chain" -> ChainedIterator_Inc(i, cs)
    [] kind = "AsReferences" -> ReferencedIterator_Inc(i)
    [] kind = "Join" -> JoinedIterator_Inc(i)
    [] kind = "Map" -> MappedIterator_Inc(i)
    [] kind = "Filter" -> FilterIterator_Inc(i, cs, f)
    [] kind = "Zip" -> ZippedIterator_Inc(i, cs)

\* for (x : range) collecting every x: the loop from a cursor to an end cursor
RECURSIVE Walk(_, _, _, _, _, _)
Walk(kind, i, e, cs, f, acc) ==
  IF ItEq(kind, i, e)
    THEN acc
    ELSE Walk(kind, ItInc(kind, i, cs, f), e, cs, f,
              Append(acc, ItDeref(kind, i, cs, f)))

-----------------------------------------------------------------------------
(* Views over containers: the sequences their cursors run over.            *)

\* EnumeratedBase, IteratedBase, ReferencedBase, MappedBase, FilteredBase:
\* begin()/end() take std::begin/std::end of iterable_, rbegin()/rend()
\* take its rbegin/rend
Single_cs(v, r) == <<ContainerSeq(v.src[1], r), <<>>>>

\* a Reversed whose begin() is std::begin(iterable_)
Reversed_cs_forward(v, r) == <<ContainerSeq(v.src[1], r), <<>>>>

\* Reversed: begin() is rbegin(iterable_), rbegin() is std::begin(iterable_)
Reversed_cs(v, r) == <<ContainerSeq(v.src[1], ~r), <<>>>>

\* ChainedBase / Chained: the outer and every inner collection in direction r
Chained_cs(v, r) == <<NestedSeq(v.src[1], r), <<>>>>

\* a Join whose begin() starts with second_
Joined_cs_swapped(v, r) ==
  <<ContainerSeq(v.src[2], r), ContainerSeq(v.src[1], r)>>

\* JoinedBase::begin is (first_, second_), Joined::rbegin is (second_, first_)
Joined_cs(v, r) ==
  IF r THEN <<ContainerSeq(v.src[2], TRUE), ContainerSeq(v.src[1], TRUE)>>
       ELSE <<ContainerSeq(v.src[1], FALSE), ContainerSeq(v.src[2], FALSE)>>

\* ZippedBase::begin and Zipped::rbegin are both (first_, second_)
Zipped_cs(v, r) == <<ContainerSeq(v.src[1], r), ContainerSeq(v.src[2], r)>>

BaseSources(v, r) ==
  CASE v.kind = "Reverse" -> Reversed_cs(v, r)
    [] v.kind = "Chain" -> Chained_cs(v, r)
    [] v.kind = "Join" -> Joined_cs(v, r)
    [] v.kind = "Zip" -> Zipped_cs(v, r)
    [] OTHER -> Single_cs(v, r)

\* a MaxPosition that is off by one
MaxPosition_size(n) == n

\* Enumerated::MaxPosition, given what size() returned
MaxPosition(n) == n - 1

kIncrement == 1
kDecrement == 0 - 1

Enumerated_begin(cs) == EnumeratedIterator(0, Len(cs[1]), 0, kIncrement, cs)
Enumerated_end(cs) == EnumeratedIterator(Len(cs[1]), Len(cs[1]), 0, kIncrement, cs)
Enumerated_rbegin(cs, n) ==
  EnumeratedIterator(0, Len(cs[1]), MaxPosition(n), kDecrement, cs)
Enumerated_rend(cs, n) ==
  EnumeratedIterator(Len(cs[1]), Len(cs[1]), MaxPosition(n), kDecrement, cs)

Iterated_begin(cs) == StdIterator(0)
Iterated_end(cs) == StdIterator(Len(cs[1]))

Reversed_begin(cs) == StdIterator(0)
Reversed_end(cs) == StdIterator(Len(cs[1]))

Chained_begin(cs) == ChainedIterator(0, Len(cs[1]), cs)
Chained_end(cs) == ChainedIterator(Len(cs[1]), Len(cs[1]), cs)

Referenced_begin(cs) == ReferencedIterator(0, Len(cs[1]))
Referenced_end(cs) == ReferencedIterator(Len(cs[1]), Len(cs[1]))

Joined_begin(cs) == JoinedIterator(0, Len(cs[1]), 0, Len(cs[2]))
Joined_end(cs) == JoinedIterator(Len(cs[1]), Len(cs[1]), Len(cs[2]), Len(cs[2]))

Mapped_begin(cs) == MappedIterator(0, Len(cs[1]))
Mapped_end(cs) == MappedIterator(Len(cs[1]), Len(cs[1]))

Filtered_begin(cs, f) == FilterIterator(0, Len(cs[1]), cs, f)
Filtered_end(cs, f) == FilterIterator(Len(cs[1]), Len(cs[1]), cs, f)

Zipped_begin(cs) == ZippedIterator(0, Len(cs[1]), 0, Len(cs[2]), cs)
Zipped_end(cs) ==
  ZippedIterator(Len(cs[1]), Len(cs[1]), Len(cs[2]), Len(cs[2]), cs)

\* begin() (r = FALSE) or rbegin() (r = TRUE) of a view of the given kind;
\* n is what size() returns to Enumerated::rbegin
BeginOf(kind, cs, f, r, n) ==
  CASE kind = "Enumerate" ->
         IF r THEN Enumerated_rbegin(cs, n) ELSE Enumerated_begin(cs)
    [] kind = "Iterate" -> Iterated_begin(cs)
    [] kind = "Reverse" -> Reversed_begin(cs)
    [] kind = "Chain" -> Chained_begin(cs)
    [] kind = "AsReferences" -> Referenced_begin(cs)
    [] kind = "Join" -> Joined_begin(cs)
    [] kind = "Map" -> Mapped_begin(cs)
    [] kind = "Filter" -> Filtered_begin(cs, f)
    [] kind = "Zip" -> Zipped_begin(cs)

EndOf(kind, cs, f, r, n) ==
  CASE kind = "Enumerate" ->
         IF r THEN Enumerated_rend(cs, n) ELSE Enumerated_end(cs)
    [] kind = "Iterate" -> Iterated_end(cs)
    [] kind = "Reverse" -> Reversed_end(cs)
    [] kind = "Chain" -> Chained_end(cs)
    [] kind = "AsReferences" -> Referenced_end(cs)
    [] kind = "Join" -> Joined_end(cs)
    [] kind = "Map" -> Mapped_end(cs)
    [] kind = "Filter" -> Filtered_end(cs, f)
    [] kind = "Zip" -> Zipped_end(cs)

\* the items a view over containers yields from begin() to end() (r = FALSE)
\* or from rbegin() to rend() (r = TRUE)
ViewSeq(v, r, n) ==
  LET cs == BaseSources(v, r)
  IN Walk(v.kind, BeginOf(v.kind, cs, v.f, r, n), EndOf(v.kind, cs, v.f, r, n),
          cs, v.f, <<>>)

\* a Reversed that traverses the collection it holds in its own direction
Dir_same(v, r) == r

\* the direction in which a view traverses the collection it holds
Dir(v, r) == IF v.kind = "Reverse" THEN ~r ELSE r

\* the sequences the cursors of `view` run over: those of its containers, or
\* the traversal of the view it holds by value
Sources(v, r, ni) ==
  IF v.src[1] = Inner
    THEN <<ViewSeq(inner, Dir(v, r), ni), <<>>>>
    ELSE BaseSources(v, r)

-----------------------------------------------------------------------------
(* size() and empty().  A read through a pointer to a destroyed object is  *)
(* undefined: it may return anything.                                      *)

ReadSize(a) ==
  CASE mem[a].life = "live" -> {Len(mem[a].elems)}
    [] mem[a].life = "moved" -> {0}
    [] OTHER -> 0..MaxLen

ReadEmpty(a) ==
  CASE mem[a].life = "live" -> {Len(mem[a].elems) = 0}
    [] mem[a].life = "moved" -> {TRUE}
    [] OTHER -> BOOLEAN

\* ChainedBase::Size / IsEmpty
Chained_Size(v) == SumLen(mem[v.src[1]].elems)
Chained_IsEmpty(v) ==
  \A o \in 1..Len(mem[v.src[1]].elems) : Len(mem[v.src[1]].elems[o]) = 0

\* JoinedBase::size / empty
Joined_size(v) == Len(mem[v.src[1]].elems) + Len(mem[v.src[2]].elems)
Joined_empty(v) == Len(mem[v.src[1]].elems) = 0 /\ Len(mem[v.src[2]].elems) = 0

\* a Zip that reports the size of its first source
Zipped_size_first(v) == Len(mem[v.src[1]].elems)

\* ZippedBase::size / empty
Zipped_size(v) == Min(Len(mem[v.src[1]].elems), Len(mem[v.src[2]].elems))
Zipped_empty(v) == Len(mem[v.src[1]].elems) = 0 \/ Len(mem[v.src[2]].elems) = 0

\* FilteredBase::Size / IsEmpty: for (const auto& value : *this)
\* a Size() that answers with the size of the source
Filtered_Size_source(cs, f) == Len(cs[1])

Filtered_Size(cs, f) ==
  Len(Walk("Filter", Filtered_begin(cs, f), Filtered_end(cs, f), cs, f, <<>>))
Filtered_IsEmpty(cs, f) ==
  FilterIterator_Eq(Filtered_begin(cs, f), Filtered_end(cs, f))

\* the possible results of size() on a view over containers
BaseSize(v) ==
  CASE v.kind \in SizedByData -> ReadSize(v.data)
    [] v.kind = "Chain" -> {Chained_Size(v)}
    [] v.kind = "Join" -> {Joined_size(v)}
    [] v.kind = "Zip" -> {Zipped_size(v)}
    [] v.kind = "Filter" -> {Filtered_Size(BaseSources(v, FALSE), v.f)}

BaseEmpty(v) ==
  CASE v.kind \in SizedByData -> ReadEmpty(v.data)
    [] v.kind = "Chain" -> {Chained_IsEmpty(v)}
    [] v.kind = "Join" -> {Joined_empty(v)}
    [] v.kind = "Zip" -> {Zipped_empty(v)}
    [] v.kind = "Filter" -> {Filtered_IsEmpty(BaseSources(v, FALSE), v.f)}

\* WithSizeAndEmpty::size / empty of `view`: Data().size(), where Data() is
\* *data_; for a composed view data_ points at the view it holds
ViewSize ==
  IF view.src[1] = Inner
    THEN IF view.kind = "Filter"
           THEN {Filtered_Size(Sources(view, FALSE, 0), view.f)}
           ELSE BaseSize(inner)
    ELSE BaseSize(view)

ViewEmpty ==
  IF view.src[1] = Inner
    THEN IF view.kind = "Filter"
           THEN {Filtered_IsEmpty(Sources(view, FALSE, 0), view.f)}
           ELSE BaseEmpty(inner)
    ELSE BaseEmpty(view)

-----------------------------------------------------------------------------
(* Construction.                                                           *)

\* what a factory returns: the view holds member s in the caller's container
\* (T is a reference, own[s] = "caller") or in its own storage (T is a value,
\* own[s] = "A"); the base-class constructor of a WithSizeAndEmpty view calls
\* InitializeWithSizeAndEmpty(iterable_), so data_ is the address of iterable_
Factory(kind, own, f) ==
  [kind |-> kind,
   src |-> <<AddrOf[own[1]][1],
             IF kind \in PairKinds THEN AddrOf[own[2]][2] ELSE None>>,
   data |-> IF kind \in SizedByData THEN AddrOf[own[1]][1] ELSE None,
   f |-> f]

\* the containers a view is built over. Chain never reads an element (it
\* yields references), so its nested container is enumerated by shape: an
\* inner collection of k elements holds 1, 2, ... (wrapping at MaxVal)
Contents(kind) ==
  CASE kind \in PairKinds -> SeqsUpTo(Vals, MaxLen2) \X SeqsUpTo(Vals, MaxLen2)
    [] kind = "Chain" ->
         SeqsUpTo({[i \in 1..k |-> ((i - 1) % MaxVal) + 1] : k \in 0..MaxInner},
                  MaxOuter) \X {<<>>}
    [] OTHER -> SeqsUpTo(Vals, MaxLen) \X {<<>>}

UserFunctions(kind) ==
  CASE kind = "Filter" -> Predicates
    [] kind = "Map" -> Functions
    [] OTHER -> {None}

Init ==
  \E kind \in Kinds, o1 \in {"caller", "A"}, o2 \in {"caller", "A"} :
    \E c \in Contents(kind), f \in UserFunctions(kind) :
      /\ kind \notin PairKinds => o2 = "caller"
      /\ view = Factory(kind, <<o1, o2>>, f)
      /\ mem = [a \in Addr |->
                 IF a = AddrOf[o1][1] THEN [life |-> "live", elems |-> c[1]]
                 ELSE IF kind \in PairKinds /\ a = AddrOf[o2][2]
                   THEN [life |-> "live", elems |-> c[2]]
                 ELSE IF a = Heap
                   THEN [life |-> "live", elems |-> [p \in Vals |-> p]]
                   ELSE NoCell]
      /\ inner = NoView
      /\ consumed = FALSE
      /\ pc = "view"
      /\ rev = FALSE
      /\ it = NoIt
      /\ end = NoIt
      /\ out = <<>>
      /\ advances = 0
      /\ isz = {}
      /\ sz = {}
      /\ emp = {}
      /\ other = NoOther
      /\ calls = <<>>
      /\ ty = NoType
      /\ prev = <<>>

-----------------------------------------------------------------------------
(* Writes through references.                                              *)

\* the object a yielded item lets the caller write: Item::Value() is
\* *value_, any other item is the reference itself
Target(x) == IF x.t = "item" THEN x.value ELSE x

\* an assignment that overwrites the whole collection of the element
Store_all(m, x, w) ==
  CASE x.t = "ref" ->
         [m EXCEPT ![x.a].elems = [j \in 1..Len(m[x.a].elems) |-> w]]
    [] x.t = "cref" ->
         [m EXCEPT ![x.a].elems[x.o] = [j \in 1..Len(m[x.a].elems[x.o]) |-> w]]
    [] x.t = "pointee" ->
         [m EXCEPT ![Heap].elems = [j \in 1..Len(m[Heap].elems) |-> w]]

\* the memory after the assignment x = w through the reference x
Store(m, x, w) ==
  CASE x.t = "ref" -> [m EXCEPT ![x.a].elems[x.i] = w]
    [] x.t = "cref" -> [m EXCEPT ![x.a].elems[x.o][x.i] = w]
    [] x.t = "pointee" -> [m EXCEPT ![Heap].elems[x.p] = w]

\* the memory after f has been invoked on each of args, in order
RECURSIVE AfterCalls(_, _, _)
AfterCalls(m, args, f) ==
  IF args = <<>> \/ f \in PureFunctions
    THEN m
    ELSE LET x == Head(args)
             v == CASE x.t = "ref" -> m[x.a].elems[x.i]
                    [] x.t = "cref" -> m[x.a].elems[x.o][x.i]
                    [] x.t = "pointee" -> m[Heap].elems[x.p]
         IN AfterCalls(Store(m, x, Effect(f, v)), Tail(args), f)

-----------------------------------------------------------------------------
(* Traversal: for (it = begin(); it != end(); ++it) yield *it               *)

\* whether the traversal in direction r calls rbegin() on the held view, and
\* that view is an Enumerated (whose rbegin() calls size())
InnerReadsSize(r) ==
  view.src[1] = Inner /\ inner.kind = "Enumerate" /\ Dir(view, r)

Start(r) ==
  /\ pc = "view"
  /\ \E n \in (IF view.kind = "Enumerate" /\ r THEN ViewSize ELSE {0}),
        ni \in (IF InnerReadsSize(r) THEN BaseSize(inner) ELSE {0}) :
       LET cs == Sources(view, r, ni)
       IN /\ it' = BeginOf(view.kind, cs, view.f, r, n)
          /\ end' = EndOf(view.kind, cs, view.f, r, n)
          /\ isz' = IF InnerReadsSize(r) THEN {ni} ELSE {}
  /\ rev' = r
  /\ pc' = "loop"
  /\ out' = <<>>
  /\ advances' = 0
  /\ UNCHANGED <<mem, view, inner, consumed, sz, emp, other, calls, ty, prev>>

\* it = view.begin(), end = view.end()
Begin == Start(FALSE)

\* it = view.rbegin(), end = view.rend()
RBegin == Start(TRUE)

\* the sequences the cursor of the traversal in progress runs over
CurSources ==
  Sources(view, rev, IF isz = {} THEN 0 ELSE CHOOSE n \in isz : TRUE)

InLoop(kind) ==
  /\ pc = "loop"
  /\ view.kind = kind
  /\ ~ItEq(kind, it, end)

Yield(item, next) ==
  /\ out' = Append(out, item)
  /\ it' = next
  /\ advances' = advances + 1
  /\ UNCHANGED <<view, inner, consumed, pc, rev, end, isz, sz, emp, other, ty, prev>>

EnumeratedStep ==
  /\ InLoop("Enumerate")
  /\ Yield(EnumeratedIterator_Deref(it), EnumeratedIterator_Inc(it, CurSources))
  /\ UNCHANGED <<mem, calls>>

\* a step that takes the element out of the source: it leaves 0 behind
IteratedStep_taking ==
  /\ InLoop("Iterate")
  /\ Yield(StdIterator_Deref(it, CurSources), StdIterator_Inc(it))
  /\ mem' = Store(mem, StdIterator_Deref(it, CurSources), 0)
  /\ UNCHANGED calls

IteratedStep ==
  /\ InLoop("Iterate")
  /\ Yield(StdIterator_Deref(it, CurSources), StdIterator_Inc(it))
  /\ UNCHANGED <<mem, calls>>

ReversedStep ==
  /\ InLoop("Reverse")
  /\ Yield(StdIterator_Deref(it, CurSources), StdIterator_Inc(it))
  /\ UNCHANGED <<mem, calls>>

ChainedStep ==
  /\ InLoop("Chain")
  /\ Yield(ChainedIterator_Deref(it, CurSources),
           ChainedIterator_Inc(it, CurSources))
  /\ UNCHANGED <<mem, calls>>

ReferencedStep ==
  /\ InLoop("AsReferences")
  /\ Yield(ReferencedIterator_Deref(it, CurSources), ReferencedIterator_Inc(it))
  /\ UNCHANGED <<mem, calls>>

JoinedStep ==
  /\ InLoop("Join")
  /\ Yield(JoinedIterator_Deref(it, CurSources), JoinedIterator_Inc(it))
  /\ UNCHANGED <<mem, calls>>

MappedStep ==
  /\ InLoop("Map")
  /\ Yield(MappedIterator_Deref(it, CurSources, view.f), MappedIterator_Inc(it))
  /\ calls' = calls \o MappedIterator_Eq_calls
                    \o MappedIterator_Deref_calls(it, CurSources)
                    \o MappedIterator_Inc_calls
  /\ mem' = AfterCalls(mem, MappedIterator_Deref_calls(it, CurSources), view.f)

FilterStep ==
  /\ InLoop("Filter")
  /\ Yield(FilterIterator_Deref(it, CurSources),
           FilterIterator_Inc(it, CurSources, view.f))
  /\ UNCHANGED <<mem, calls>>

ZippedStep ==
  /\ InLoop("Zip")
  /\ Yield(ZippedIterator_Deref(it), ZippedIterator_Inc(it, CurSources))
  /\ UNCHANGED <<mem, calls>>

\* it == end: the loop is left
Finish ==
  /\ pc = "loop"
  /\ ItEq(view.kind, it, end)
  /\ pc' = "done"
  /\ UNCHANGED <<mem, view, inner, consumed, rev, it, end, out, advances,
                 isz, sz, emp, other, calls, ty, prev>>

\* view.size()
SizeCall ==
  /\ pc = "done"
  /\ sz = {}
  /\ \E n \in ViewSize : sz' = {n}
  /\ UNCHANGED <<mem, view, inner, consumed, pc, rev, it, end, out, advances,
                 isz, emp, other, calls, ty, prev>>

\* view.empty()
EmptyCall ==
  /\ pc = "done"
  /\ emp = {}
  /\ \E b \in ViewEmpty : emp' = {b}
  /\ UNCHANGED <<mem, view, inner, consumed, pc, rev, it, end, out, advances,
                 isz, sz, other, calls, ty, prev>>

Next ==
  \/ Begin
  \/ RBegin
  \/ EnumeratedStep
  \/ IteratedStep
  \/ ReversedStep
  \/ ChainedStep
  \/ ReferencedStep
  \/ JoinedStep
  \/ MappedStep
  \/ FilterStep
  \/ ZippedStep
  \/ Finish
  \/ SizeCall
  \/ EmptyCall

Spec == Init /\ [][Next]_vars

\* a program that traverses the view and calls neither size() nor empty()
Traversal ==
  \/ Begin
  \/ RBegin
  \/ EnumeratedStep
  \/ IteratedStep
  \/ ReversedStep
  \/ ChainedStep
  \/ ReferencedStep
  \/ JoinedStep
  \/ MappedStep
  \/ FilterStep
  \/ ZippedStep
  \/ Finish

-----------------------------------------------------------------------------
(* The types the factories build: the class a factory instantiates, what   *)
(* the iterators of that class yield, and whether the call compiles.       *)

\* how an argument is bound to the T&& of a factory: a const lvalue (T is
\* const X&), a mutable lvalue (T is X&), an rvalue (T is X)
Bindings == {"const", "mutable", "moved"}

NoArg == [cls |-> None]

\* std::vector and std::forward_list of int, int*, std::vector<int> and
\* std::forward_list<int>. A type is described by its class, its
\* value_type (elem), whether *iterator and *const_iterator are mutable
\* lvalues (mut, cmut), whether *iterator is an lvalue, whether the iterator
\* class overloads operator*, whether the iterator class has a value_type
\* (std), and whether every container below was bound as mutable (allmut)
Container(cls, elem) ==
  [cls |-> cls, kind |-> "container", elem |-> elem, mut |-> TRUE,
   cmut |-> FALSE, lvalue |-> TRUE, overloaded |-> FALSE, std |-> TRUE,
   allmut |-> TRUE, depth |-> 0]

SequenceTypes == {<<"vector">>, <<"forward_list">>}

Containers ==
  {Container(c, e) : c \in {"vector", "forward_list"},
                     e \in {<<"int">>, <<"int*">>} \cup SequenceTypes}

\* the classes that declare rbegin()
WithRBegin ==
  {"vector", "Enumerated", "Iterated", "Chained", "Referenced", "Reversed",
   "Joined", "Mapped", "Filtered", "Zipped"}

has_rbegin(t) == t.cls \in WithRBegin

is_bidirectional_collection(t) == has_rbegin(t)

\* a disjunction in the place of the conjunction
are_bidirectional_collections_any(t1, t2) ==
  is_bidirectional_collection(t1) \/ is_bidirectional_collection(t2)

\* conjunction<is_bidirectional_collection<T1>, is_bidirectional_collection<T2>>
are_bidirectional_collections(t1, t2) ==
  is_bidirectional_collection(t1) /\ is_bidirectional_collection(t2)

\* the outer collection and its value_type
is_nested_bidirectional_collection(t) ==
  are_bidirectional_collections(t, [cls |-> t.elem[1]])

is_const_type(b) == b = "const"

is_any_const(b1, b2) == is_const_type(b1) \/ is_const_type(b2)

is_const_collection(t, b) == is_const_type(b) \/ ~t.mut

\* what the iterator selected by non_const_iterator_t and by
\* conditional_t<is_const_type<T>::value, const_iterator, iterator> yields
non_const_iterator_t(t, b) == IF is_const_type(b) THEN t.cmut ELSE t.mut

\* the enable_if pair of a factory
Variant(bidirectional, cls) ==
  IF bidirectional THEN cls ELSE "Forward" \o cls

View(cls, kind, elem, mut, cmut, lvalue, overloaded, std, allmut, depth) ==
  [cls |-> cls, kind |-> kind, elem |-> elem, mut |-> mut, cmut |-> cmut,
   lvalue |-> lvalue, overloaded |-> overloaded, std |-> std,
   allmut |-> allmut, depth |-> depth]

\* EnumeratedIterator::NonConstValue casts *begin_, which must be an lvalue
EnumerateCompiles(t) == t.lvalue

EnumerateType(t, b) ==
  View(Variant(is_bidirectional_collection(t), "Enumerated"), "Enumerate",
       <<"Item", t.elem>>, ~is_const_collection(t, b), FALSE, TRUE, TRUE,
       FALSE, t.allmut /\ ~is_const_type(b), t.depth + 1)

IterateType(t, b) ==
  View(Variant(is_bidirectional_collection(t), "Iterated"), "Iterate",
       t.elem, non_const_iterator_t(t, b), t.cmut, t.lvalue, t.overloaded,
       t.std, t.allmut /\ ~is_const_type(b), t.depth + 1)

\* ChainedIterator names _outer_iterator::value_type, and the elements
\* must be collections
ChainCompiles(t) == t.std /\ t.elem \in SequenceTypes

ChainType(t, b) ==
  View(Variant(is_nested_bidirectional_collection(t), "Chained"), "Chain",
       <<"int">>, ~is_const_type(b), FALSE, TRUE, FALSE, FALSE,
       t.allmut /\ ~is_const_type(b), t.depth + 1)

\* the elements must be pointers
AsReferencesCompiles(t) == t.elem = <<"int*">>

AsReferencesType(t, b) ==
  View(Variant(is_bidirectional_collection(t), "Referenced"), "AsReferences",
       <<"int">>, ~is_const_type(b), FALSE, TRUE, FALSE, FALSE,
       t.allmut /\ ~is_const_type(b), t.depth + 1)

\* Reverse without its static_assert
ReverseCompiles_fallback(t) == TRUE

\* static_assert(details::is_bidirectional_collection<T>::value, ...)
ReverseCompiles(t) == is_bidirectional_collection(t)

ReverseType(t, b) ==
  View("Reversed", "Reverse", t.elem, non_const_iterator_t(t, b), t.cmut,
       t.lvalue, t.overloaded, t.std, t.allmut /\ ~is_const_type(b),
       t.depth + 1)

\* what the two iterators a JoinedIterator holds yield
JoinYields(t1, t2, b1, b2) ==
  IF is_any_const(b1, b2) THEN <<t1.cmut, t2.cmut>> ELSE <<t1.mut, t2.mut>>

\* static_assert on value_type; auto& operator*() returns *first_ or
\* *second_, which must be lvalues of one type
JoinCompiles(t1, t2, b1, b2) ==
  /\ t1.elem = t2.elem
  /\ t1.lvalue /\ t2.lvalue
  /\ JoinYields(t1, t2, b1, b2)[1] = JoinYields(t1, t2, b1, b2)[2]

JoinType(t1, t2, b1, b2) ==
  View(Variant(are_bidirectional_collections(t1, t2), "Joined"), "Join",
       t1.elem, JoinYields(t1, t2, b1, b2)[1], FALSE, TRUE, FALSE, FALSE,
       t1.allmut /\ t2.allmut /\ ~is_any_const(b1, b2),
       (IF t1.depth > t2.depth THEN t1.depth ELSE t2.depth) + 1)

\* MappedIterator::operator* returns the result of the function by value
MapType(t, b) ==
  View(Variant(is_bidirectional_collection(t), "Mapped"), "Map",
       <<"int">>, FALSE, FALSE, FALSE, FALSE, FALSE,
       t.allmut /\ ~is_const_type(b), t.depth + 1)

\* decltype(&_iterable::operator*) needs an iterator with one operator*
FilterCompiles(t) == ~t.overloaded

FilterType(t, b) ==
  View(Variant(is_bidirectional_collection(t), "Filtered"), "Filter",
       t.elem, non_const_iterator_t(t, b), FALSE, t.lvalue, FALSE, FALSE,
       t.allmut /\ ~is_const_type(b), t.depth + 1)

\* ZippedIterator::NonConstFirstValue / NonConstSecondValue cast
\* *first_begin_ and *second_begin_, which must be lvalues
ZipCompiles(t1, t2) == t1.lvalue /\ t2.lvalue

ZipType(t1, t2, b1, b2) ==
  View(Variant(are_bidirectional_collections(t1, t2), "Zipped"), "Zip",
       <<"ZippedValue", t1.elem, t2.elem>>, ~is_any_const(b1, b2), FALSE,
       TRUE, TRUE, FALSE, t1.allmut /\ t2.allmut /\ ~is_any_const(b1, b2),
       (IF t1.depth > t2.depth THEN t1.depth ELSE t2.depth) + 1)

Compiles(kind, t1, t2, b1, b2) ==
  CASE kind = "Enumerate" -> EnumerateCompiles(t1)
    [] kind = "Iterate" -> TRUE
    [] kind = "Chain" -> ChainCompiles(t1)
    [] kind = "AsReferences" -> AsReferencesCompiles(t1)
    [] kind = "Reverse" -> ReverseCompiles(t1)
    [] kind = "Join" -> JoinCompiles(t1, t2, b1, b2)
    [] kind = "Map" -> TRUE
    [] kind = "Filter" -> FilterCompiles(t1)
    [] kind = "Zip" -> ZipCompiles(t1, t2)

TypeOf(kind, t1, t2, b1, b2) ==
  CASE kind = "Enumerate" -> EnumerateType(t1, b1)
    [] kind = "Iterate" -> IterateType(t1, b1)
    [] kind = "Chain" -> ChainType(t1, b1)
    [] kind = "AsReferences" -> AsReferencesType(t1, b1)
    [] kind = "Reverse" -> ReverseType(t1, b1)
    [] kind = "Join" -> JoinType(t1, t2, b1, b2)
    [] kind = "Map" -> MapType(t1, b1)
    [] kind = "Filter" -> FilterType(t1, b1)
    [] kind = "Zip" -> ZipType(t1, t2, b1, b2)

\* what the next call is given: a container for the first call, the view
\* the previous call built after that
Primary ==
  IF ty.kind = None THEN Containers
  ELSE IF ty.ok /\ ty.t.depth < MaxDepth THEN {ty.t} ELSE {}

\* the outcome of kind(a1, a2): the class it builds, or no view at all
Call(kind, by, t1, t2, b1, b2) ==
  /\ ty' = [kind |-> kind, by |-> by, args |-> <<t1, t2>>,
            bind |-> <<b1, b2>>,
            ok |-> Compiles(kind, t1, t2, b1, b2),
            t |-> IF Compiles(kind, t1, t2, b1, b2)
                    THEN TypeOf(kind, t1, t2, b1, b2) ELSE NoArg]
  /\ UNCHANGED <<mem, view, inner, consumed, pc, rev, it, end, out, advances,
                 isz, sz, emp, other, calls, prev>>

CallEnumerate ==
  \E t \in Primary, b \in Bindings :
    Call("Enumerate", "factory", t, NoArg, b, None)

CallIterate ==
  \E t \in Primary, b \in Bindings :
    Call("Iterate", "factory", t, NoArg, b, None)

CallChain ==
  \E t \in Primary, b \in Bindings :
    Call("Chain", "factory", t, NoArg, b, None)

CallAsReferences ==
  \E t \in Primary, b \in Bindings :
    Call("AsReferences", "factory", t, NoArg, b, None)

CallReverse ==
  \E t \in Primary, b \in Bindings :
    Call("Reverse", "factory", t, NoArg, b, None)

\* the other argument of a call with two: a container, or the same view
CallJoin ==
  \E t \in Primary, c \in Containers \cup Primary, first \in BOOLEAN :
    \E b1 \in Bindings, b2 \in Bindings :
      Call("Join", "factory", IF first THEN t ELSE c, IF first THEN c ELSE t,
           b1, b2)

CallMap ==
  \E t \in Primary, b \in Bindings :
    Call("Map", "factory", t, NoArg, b, None)

CallFilter ==
  \E t \in Primary, b \in Bindings :
    Call("Filter", "factory", t, NoArg, b, None)

CallZip ==
  \E t \in Primary, c \in Containers \cup Primary, first \in BOOLEAN :
    \E b1 \in Bindings, b2 \in Bindings :
      Call("Zip", "factory", IF first THEN t ELSE c, IF first THEN c ELSE t,
           b1, b2)

ChainedOps == {"Map", "Filter", "Reverse", "Enumerate"}

\* v.map(f), v.filter(f), v.reverse(), v.enumerate() on the view the
\* previous call built: the factory is given the rvalue MoveSelf()
CallChainedOperator ==
  /\ ty.kind # None /\ ty.ok /\ ty.t.depth < MaxDepth
  /\ \E op \in ChainedOps : Call(op, "operator", ty.t, NoArg, "moved", None)

NextTypes ==
  \/ CallEnumerate
  \/ CallIterate
  \/ CallChain
  \/ CallAsReferences
  \/ CallReverse
  \/ CallJoin
  \/ CallMap
  \/ CallFilter
  \/ CallZip
  \/ CallChainedOperator

\* no traversal takes place: the data is one empty container
InitTypes ==
  /\ Init
  /\ view = Factory("Iterate", <<"caller", "caller">>, None)
  /\ mem["caller1"].elems = <<>>

SpecTypes == InitTypes /\ [][NextTypes]_vars

\* the type of the view a factory built over vectors
ViewType(v) ==
  LET c(e) == Container("vector", e)
  IN  CASE v.kind = "Chain" ->
             TypeOf("Chain", c(<<"vector">>), NoArg, "mutable", None)
        [] v.kind = "AsReferences" ->
             TypeOf("AsReferences", c(<<"int*">>), NoArg, "mutable", None)
        [] OTHER ->
             TypeOf(v.kind, c(<<"int">>), c(<<"int">>), "mutable", "mutable")

-----------------------------------------------------------------------------
(* Chained operators: WithChainedOperators::map / filter / reverse /       *)
(* enumerate.                                                              *)

\* a constructor that copies: the container moved from keeps its elements
MoveCells_copy(m, from, to) ==
  [a \in Addr |->
     IF \E s \in 1..2 : a = AddrOf[to][s] /\ m[AddrOf[from][s]].life = "live"
       THEN m[AddrOf[from][CHOOSE s \in 1..2 : a = AddrOf[to][s]]]
       ELSE m[a]]

\* the move constructor of a container: the target takes the elements, the
\* moved-from container is left empty
MoveCells(m, from, to) ==
  [a \in Addr |->
     IF \E s \in 1..2 : a = AddrOf[to][s] /\ m[AddrOf[from][s]].life = "live"
       THEN m[AddrOf[from][CHOOSE s \in 1..2 : a = AddrOf[to][s]]]
     ELSE IF \E s \in 1..2 : a = AddrOf[from][s] /\ m[a].life = "live"
       THEN [life |-> "moved", elems |-> <<>>]
       ELSE m[a]]

\* the destructor of the object `of`
DestroyCells(m, of) ==
  [a \in Addr |->
     IF (\E s \in 1..2 : a = AddrOf[of][s]) /\ m[a].life # "none"
       THEN [life |-> "dead", elems |-> <<>>]
       ELSE m[a]]

\* the implicit move constructor of a view: a member held by value is
\* moved into the new object, a member held by reference still refers to
\* the caller's container, and WithSizeAndEmpty::data_ is copied as it is
MoveView(v, from, to) ==
  [v EXCEPT !.src = [s \in 1..2 |->
                       IF v.src[s] = AddrOf[from][s] THEN AddrOf[to][s]
                                                     ELSE v.src[s]]]

\* DerivedClass MoveSelf() { return std::move(*self); }
MoveSelf(v) == MoveView(v, "A", "B")

\* the view op(MoveSelf(), f) constructs around the view it is given
Composed(op, f) ==
  [kind |-> op, src |-> <<Inner, None>>,
   data |-> IF op \in SizedByData THEN Inner ELSE None, f |-> f]

\* view.map(f), view.filter(f), view.reverse(), view.enumerate(): MoveSelf()
\* makes the temporary B, the factory moves B into the member iterable_ of
\* the view it returns (D), and B is destroyed when the call returns.
\* Composed views are modelled for functions without side effects.
ChainedOperator ==
  /\ pc = "view"
  /\ ~consumed
  /\ ~(view.kind = "Map" /\ view.f \notin PureFunctions)
  /\ \E op \in ChainedOps :
       \E f \in (IF op = "Map" THEN PureFunctions ELSE UserFunctions(op)) :
         /\ Compiles(op, ViewType(view), NoArg, "moved", None)
         /\ inner' = MoveView(MoveSelf(view), "B", "D")
         /\ view' = Composed(op, f)
  /\ mem' = DestroyCells(MoveCells(MoveCells(mem, "A", "B"), "B", "D"), "B")
  /\ consumed' = TRUE
  /\ UNCHANGED <<pc, rev, it, end, out, advances, isz, sz, emp, other, calls, ty, prev>>

\* the consumed (moved-from) view goes out of scope
DestroyConsumed ==
  /\ consumed
  /\ \E s \in 1..2 : mem[AddrOf["A"][s]].life = "moved"
  /\ mem' = DestroyCells(mem, "A")
  /\ UNCHANGED <<view, inner, consumed, pc, rev, it, end, out, advances,
                 isz, sz, emp, other, calls, ty, prev>>

NextChained ==
  \/ Next
  \/ ChainedOperator
  \/ DestroyConsumed

SpecChained == Init /\ [][NextChained]_vars

\* the containers have at most n elements in all
Small(n) ==
  Len(mem["caller1"].elems) + Len(mem["caller2"].elems)
    + Len(mem["A1"].elems) + Len(mem["A2"].elems) <= n

\* the same program over containers of at most MaxSmall elements in all
SmallSources ==
  /\ Init
  /\ Small(MaxSmall)

\* and, for the views built by chained operators, of at most MaxComposed
ComposedSources ==
  /\ Init
  /\ Small(MaxComposed)

NextComposed ==
  \/ Traversal
  \/ ChainedOperator
  \/ DestroyConsumed

SpecComposed == ComposedSources /\ [][NextComposed]_vars

-----------------------------------------------------------------------------
(* Writes through the references a traversal yields.                       *)

\* the views DoubleAll is used on: their cursors yield references
Writable ==
  {"Iterate", "Reverse", "Filter", "Join", "Chain", "AsReferences", "Enumerate"}

\* one iteration of for (auto& value : *iterable) value *= 2;
DoubleStep ==
  /\ pc = "loop"
  /\ view.kind \in Writable
  /\ ~ItEq(view.kind, it, end)
  /\ LET item == ItDeref(view.kind, it, CurSources, view.f)
     IN /\ mem' = Store(mem, Target(item), 2 * ValueOf(item))
        /\ out' = Append(out, item)
        /\ it' = ItInc(view.kind, it, CurSources, view.f)
  /\ advances' = advances + 1
  /\ UNCHANGED <<view, inner, consumed, pc, rev, end, isz, sz, emp, other,
                 calls, ty, prev>>

NextWrite ==
  \/ Traversal
  \/ DoubleStep

SpecWrite == SmallSources /\ [][NextWrite]_vars

-----------------------------------------------------------------------------
(* A second cursor: auto other = it; inside the loop.                      *)

Copy ==
  /\ pc = "loop"
  /\ other = NoOther
  /\ other' = [it |-> it, advances |-> advances]
  /\ UNCHANGED <<mem, view, inner, consumed, pc, rev, it, end, out, advances,
                 isz, sz, emp, calls, ty, prev>>

NextCursors ==
  \/ Next
  \/ Copy

SpecCursors == SmallSources /\ [][NextCursors]_vars

-----------------------------------------------------------------------------
(* What the traversals are expected to yield, stated on the sources.       *)

\* the sources S1 and S2 of a view over containers, and references to
\* their elements
S1 == mem[view.src[1]].elems
S2 == mem[view.src[2]].elems
R1(i) == Ref(view.src[1], i)
R2(i) == Ref(view.src[2], i)

Done(kind, r) == pc = "done" /\ view.kind = kind /\ rev = r

\* references to the elements of the inner sequences from..Len(S1) of a
\* Chain's outer sequence, in order
RECURSIVE Flattened(_)
Flattened(from) ==
  IF from > Len(S1)
    THEN <<>>
    ELSE [i \in 1..Len(S1[from]) |-> ChainRef(view.src[1], from, i)]
         \o Flattened(from + 1)

\* the number of elements of S1 that satisfy the predicate of the view
Matching == Cardinality({i \in 1..Len(S1) : S1[i] \in view.f})

\* C2: size() equals the number of elements a traversal from begin() to
\* end() visits and empty() is true exactly when it visits none; Zip's size
\* is min(|S1|,|S2|), Join's |S1|+|S2|, Chain's the sum of the inner sizes,
\* Filter's the number of elements that satisfy the predicate.
C2_SizeAgreesWithTraversal ==
  (pc = "done" /\ ~rev) =>
     /\ sz # {} => sz = {Len(out)}
     /\ emp # {} => emp = {Len(out) = 0}
     /\ (sz # {} /\ view.kind = "Zip") => sz = {Min(Len(S1), Len(S2))}
     /\ (sz # {} /\ view.kind = "Join") => sz = {Len(S1) + Len(S2)}
     /\ (sz # {} /\ view.kind = "Chain") => sz = {SumLen(S1)}
     /\ (sz # {} /\ view.kind = "Filter") => sz = {Matching}

\* size() and empty() were both called on a non-empty Filter view that
\* leaves elements out
C2_Witness ==
  /\ Done("Filter", FALSE)
  /\ sz # {} /\ emp = {FALSE}
  /\ Len(out) < Len(S1)

\* C3: the k-th pair (k = 0, 1, ...) of the traversal of Zip(S1,S2) from
\* rbegin() to rend() is (S1[m-1-k], S2[m-1-k]) with m = min(|S1|,|S2|).
C3_ZipReverseMirrorsForward ==
  Done("Zip", TRUE) =>
     LET m == Min(Len(S1), Len(S2))
     IN /\ Len(out) = m
        /\ \A k \in 0..(m - 1) : out[k + 1] = ZippedValue(R1(m - k), R2(m - k))

C5_JoinForward ==
  Done("Join", FALSE) =>
     /\ advances = Len(S1) + Len(S2)
     /\ out = [i \in 1..(Len(S1) + Len(S2)) |->
                 IF i <= Len(S1) THEN R1(i) ELSE R2(i - Len(S1))]

\* finished forward traversals of Join: both sources non-empty, ...
C5_Witness ==
  /\ Done("Join", FALSE)
  /\ Len(S1) >= 2 /\ Len(S2) >= 2
  /\ Len(out) = Len(S1) + Len(S2)

\* C6: the traversal of Chain from begin() to end() yields the elements of
\* the inner sequences in outer order, each in its own order; empty inner
\* sequences are skipped and an empty outer sequence yields nothing.
C6_ChainForward ==
  Done("Chain", FALSE) =>
     /\ out = Flattened(1)
     /\ advances = SumLen(S1)

\* a finished forward traversal of a Chain whose outer sequence starts with
\* an empty inner sequence, has one in the middle and ends with one
C6_Witness ==
  /\ Done("Chain", FALSE)
  /\ Len(S1) >= 5
  /\ S1[1] = <<>> /\ S1[Len(S1)] = <<>>
  /\ \E o \in 2..(Len(S1) - 1) :
       /\ S1[o] = <<>>
       /\ \E p \in 2..(o - 1) : S1[p] # <<>>
       /\ \E q \in (o + 1)..(Len(S1) - 1) : S1[q] # <<>>
  /\ Len(out) >= 2

\* C7: the traversal of Filter(S,pred) from begin() to end() yields exactly
\* the elements of S for which pred holds, in their original order.
C7_FilterForward ==
  Done("Filter", FALSE) =>
     out = SelectSeq([i \in 1..Len(S1) |-> R1(i)],
                     LAMBDA x : S1[x.i] \in view.f)

\* a finished forward traversal of a Filter over a source with a leading, an
\* interior and a trailing run of failing elements
C7_Witness ==
  /\ Done("Filter", FALSE)
  /\ Len(S1) >= 5
  /\ S1[1] \notin view.f /\ S1[Len(S1)] \notin view.f
  /\ Len(out) >= 2
  /\ \E i \in 2..(Len(S1) - 1) : S1[i] \notin view.f /\ out[1].i < i /\ i < out[Len(out)].i

\* C8: the forward traversal of Enumerate(S) yields positions 0..|S|-1, the
\* item at position i referring to S[i]; the traversal from rbegin() to
\* rend() yields positions |S|-1..0, the item at position i referring to S[i].
C8_EnumeratePositions ==
  /\ Done("Enumerate", FALSE) =>
        out = [k \in 1..Len(S1) |-> Item(k - 1, R1(k))]
  /\ Done("Enumerate", TRUE) =>
        out = [k \in 1..Len(S1) |-> Item(Len(S1) - k, R1(Len(S1) + 1 - k))]

\* a finished reverse traversal of an Enumerate over several elements
C8_Witness ==
  /\ Done("Enumerate", TRUE)
  /\ Len(S1) >= 3
  /\ Len(out) = Len(S1)

\* C9: the traversal of Map(S,f) from begin() to end() yields f(S[0]), ...,
\* f(S[|S|-1]) in that order.
C9_MapForward ==
  Done("Map", FALSE) =>
     out = [k \in 1..Len(S1) |-> Mapped(Apply(view.f, S1[k]))]

\* a finished forward traversal of a Map over several distinct values
C9_Witness ==
  /\ Done("Map", FALSE)
  /\ Len(out) >= 3
  /\ \E i, j \in 1..Len(out) : out[i] # out[j]

\* C10: the traversal of Reverse(S) from begin() to end() yields the
\* elements of S from last to first, the one from rbegin() to rend() yields
\* them from first to last.
C10_ReverseOrder ==
  /\ Done("Reverse", FALSE) =>
        out = [k \in 1..Len(S1) |-> R1(Len(S1) + 1 - k)]
  /\ Done("Reverse", TRUE) =>
        out = [k \in 1..Len(S1) |-> R1(k)]

\* a finished forward traversal of a Reverse over several elements
C10_Witness ==
  /\ Done("Reverse", FALSE)
  /\ Len(S1) >= 3
  /\ Len(out) = Len(S1)

-----------------------------------------------------------------------------
(* Composed views.                                                         *)

\* `view` was obtained by a chained operator from a view that had absorbed
\* its source by value
ComposedOverAbsorbed ==
  /\ view.src[1] = Inner
  /\ inner.src[1] = AddrOf["D"][1]

\* C1: a view obtained by a chained operator from a view that absorbed its
\* source owns that source: after the consumed view is destroyed or left
\* moved-from, size() equals the number of elements the composed view's
\* traversal visits and empty() is true exactly when that number is 0.
C1_ComposedViewOwnsSource ==
  (pc = "done" /\ ~rev /\ ComposedOverAbsorbed) =>
     /\ sz # {} => sz = {Len(out)}
     /\ emp # {} => emp = {Len(out) = 0}

\* the source of the view held inside a composed view, and references to
\* its elements
IS1 == mem[inner.src[1]].elems
IR1(i) == Ref(inner.src[1], i)

ComposedDone(kind, innerKind, r) ==
  /\ Done(kind, r)
  /\ view.src[1] = Inner
  /\ inner.kind = innerKind

\* C11: the forward traversal of Reverse(Reverse(S)) visits the elements of
\* S in the order of the forward traversal of S.
C11_ReverseReverse ==
  ComposedDone("Reverse", "Reverse", FALSE) =>
     out = [k \in 1..Len(IS1) |-> IR1(k)]

\* a finished forward traversal of a Reverse of a Reverse of several elements
C11_Witness ==
  /\ ComposedDone("Reverse", "Reverse", FALSE)
  /\ Len(IS1) >= 2
  /\ IS1[1] # IS1[2]
  /\ Len(out) = Len(IS1)

\* C12: the traversal of Join(S1,S2) from rbegin() to rend() yields the
\* elements of S2 from last to first, then those of S1 from last to first.
C12_JoinReverse ==
  Done("Join", TRUE) =>
     out = [i \in 1..(Len(S1) + Len(S2)) |->
              IF i <= Len(S2) THEN R2(Len(S2) + 1 - i)
                              ELSE R1(Len(S1) + Len(S2) + 1 - i)]

\* a finished reverse traversal of a Join of two sources of several elements
C12_Witness ==
  /\ Done("Join", TRUE)
  /\ Len(S1) >= 2 /\ Len(S2) >= 2
  /\ Len(out) = Len(S1) + Len(S2)

\* what the traversal of the view from begin() to end() is to yield, stated
\* on its source
Forward ==
  CASE view.kind = "Iterate" -> [k \in 1..Len(S1) |-> R1(k)]
    [] view.kind = "Enumerate" -> [k \in 1..Len(S1) |-> Item(k - 1, R1(k))]
    [] view.kind = "AsReferences" -> [k \in 1..Len(S1) |-> Pointee(S1[k])]
    [] view.kind = "Map" ->
         [k \in 1..Len(S1) |-> Mapped(Apply(view.f, S1[k]))]
    [] view.kind = "Filter" ->
         SelectSeq([k \in 1..Len(S1) |-> R1(k)], LAMBDA x : ValueOf(x) \in view.f)
    [] view.kind = "Chain" -> Flattened(1)

\* C13: for a view built by Iterate, Enumerate, AsReferences, Map, Filter or
\* Chain, the traversal from rbegin() to rend() visits the elements of the
\* traversal from begin() to end(), each once, in the opposite order.
C13_ReverseMirrorsForward ==
  (pc = "done" /\ rev /\ view.src[1] # Inner
     /\ view.kind \in {"Iterate", "Enumerate", "AsReferences", "Map", "Filter",
                       "Chain"}) =>
     out = Rev(Forward)

\* a finished reverse traversal of a Chain whose outer sequence has an
\* empty inner sequence between two non-empty ones
C13_Witness ==
  /\ Done("Chain", TRUE)
  /\ \E o \in 2..(Len(S1) - 1) :
       S1[o] = <<>> /\ Len(S1[o - 1]) >= 2 /\ S1[o + 1] # <<>>
  /\ Len(out) >= 3

\* the number of elements a complete traversal of the view visits, stated
\* on its sources
Visited ==
  CASE view.kind = "Filter" -> Matching
    [] view.kind = "Chain" -> SumLen(S1)
    [] view.kind = "Join" -> Len(S1) + Len(S2)
    [] view.kind = "Zip" -> Min(Len(S1), Len(S2))
    [] OTHER -> Len(S1)

\* `it` and the copy `other` taken of it earlier are cursors of one traversal
TwoCursors == pc \in {"loop", "done"} /\ other # NoOther

\* C14 as claimed: two cursors of a view compare equal iff they denote the
\* same position; two Chain or Zip cursors compare equal iff both are at
\* end.
C14_EqualIffSamePosition ==
  TwoCursors =>
     IF view.kind \in {"Chain", "Zip"}
       THEN ItEq(view.kind, it, other.it)
              <=> (advances = Visited /\ other.advances = Visited)
       ELSE ItEq(view.kind, it, other.it) <=> (advances = other.advances)

\* C14 as amended: two Chain or Zip cursors compare equal iff both are at
\* end or neither is; two cursors of any other view compare equal iff they
\* denote the same position, and a cursor equals end() iff it has visited
\* every element.
C14_EqualityOfCursors ==
  /\ TwoCursors =>
        IF view.kind \in {"Chain", "Zip"}
          THEN ItEq(view.kind, it, other.it)
                 <=> ((advances = Visited) <=> (other.advances = Visited))
          ELSE ItEq(view.kind, it, other.it) <=> (advances = other.advances)
  /\ pc \in {"loop", "done"} => (ItEq(view.kind, it, end) <=> (advances = Visited))

\* a Chain cursor and a copy of it, two positions apart and neither at end
C14_Witness ==
  /\ TwoCursors
  /\ view.kind = "Chain"
  /\ other.advances + 2 <= advances
  /\ advances < Visited

\* the element (a, i) of the memory m, and whether the reference x denotes
\* it or, for a Chain, an element inside it
Denotes(x, a, i) ==
  CASE x.t = "ref" -> x.a = a /\ x.i = i
    [] x.t = "cref" -> x.a = a /\ x.o = i
    [] x.t = "pointee" -> a = Heap /\ x.p = i

\* the step changed the element x denotes from v to 2 * v and nothing else
OnlyDoubled(x) ==
  \A a \in Addr :
    /\ mem'[a].life = mem[a].life
    /\ Len(mem'[a].elems) = Len(mem[a].elems)
    /\ \A i \in 1..Len(mem[a].elems) :
         LET old == mem[a].elems[i]
             new == mem'[a].elems[i]
         IN IF ~Denotes(x, a, i) THEN new = old
            ELSE IF x.t = "cref"
              THEN /\ Len(new) = Len(old)
                   /\ \A j \in 1..Len(old) :
                        new[j] = IF j = x.i THEN 2 * old[j] ELSE old[j]
              ELSE new = 2 * old

InOrder(k) == IF rev THEN R1(Len(S1) + 1 - k) ELSE R1(k)

\* C17: constructing a Map view invokes the mapping function zero times; a
\* traversal invokes it once per dereference, on the current element and in
\* traversal order, never on advance or comparison; a function that adds
\* 100 to its argument has added 100 to every element exactly once when the
\* traversal from begin() to end() is over.
C17_MapCallsOncePerDereference ==
  /\ pc = "view" => calls = <<>>
  /\ (pc \in {"loop", "done"} /\ view.kind = "Map" /\ view.src[1] # Inner) =>
        calls = [k \in 1..advances |-> InOrder(k)]
  /\ (Done("Map", FALSE) /\ view.src[1] # Inner /\ view.f = "increase") =>
        /\ \A k \in 1..Len(S1) : S1[k] \in {v + 100 : v \in Vals}
        /\ out = [k \in 1..Len(S1) |-> Mapped(0)]

\* a finished forward traversal of a Map whose function increased each of
\* several elements
C17_Witness ==
  /\ Done("Map", FALSE)
  /\ view.f = "increase"
  /\ Len(S1) >= 3
  /\ Len(calls) = Len(S1)
  /\ S1[1] > 100 /\ S1[Len(S1)] > 100

\* a call that compiled and built a view
Built == ty.kind # None /\ ty.ok

\* C16: the cursor of a view yields a mutable reference if and only if the
\* view is accessed as mutable and every underlying source was bound as
\* mutable; accessed as const it yields read-only references only.
C16_MutableIffAllSourcesMutable ==
  (Built /\ ty.t.lvalue) =>
    /\ ty.t.mut <=> ty.t.allmut
    /\ ~ty.t.cmut

\* C18: the class a factory builds has rbegin()/rend() if and only if the
\* source has; for Join and Zip if and only if both sources have; for Chain
\* if and only if the outer collection and its element type have. The
\* sources are containers or views of any depth.
C18_BidirectionalIffSourcesAre ==
  Built =>
    (has_rbegin(ty.t) <=>
       CASE ty.kind \in PairKinds ->
              has_rbegin(ty.args[1]) /\ has_rbegin(ty.args[2])
         [] ty.kind = "Chain" ->
              has_rbegin(ty.args[1]) /\ ty.args[1].elem = <<"vector">>
         [] OTHER -> has_rbegin(ty.args[1]))

\* Join of a bidirectional view with a forward-only container built the
\* forward-only class
C18_Witness ==
  /\ Built
  /\ ty.kind = "Join"
  /\ ty.args[1].kind \notin {"container", "Reverse"}
  /\ has_rbegin(ty.args[1])
  /\ ty.args[2].cls = "forward_list"
  /\ ty.t.cls = "ForwardJoined"

\* C19: Reverse, as a factory or as the chained .reverse(), builds a view if
\* and only if its source can be traversed backward; on a forward-only
\* source the call is rejected and there is no view.
C19_ReverseNeedsBidirectionalSource ==
  ty.kind = "Reverse" =>
    /\ ty.ok <=> has_rbegin(ty.args[1])
    /\ ty.ok => ty.t.cls = "Reversed" /\ has_rbegin(ty.t)
    /\ ~ty.ok => ty.t.cls = None

\* .reverse() on a forward-only view was rejected
C19_Witness ==
  /\ ty.kind = "Reverse"
  /\ ty.by = "operator"
  /\ ty.args[1].kind \in {"Filter", "Join", "Chain"}
  /\ ~has_rbegin(ty.args[1])
  /\ ~ty.ok

\* C20: every engine accepts .map(f), .filter(pred), .reverse() and
\* .enumerate(), and the view returned is the one Map, Filter, Reverse and
\* Enumerate build on the same view. (.reverse() is read as C19 has it: on
\* the engines that can be traversed backward.)
C20_ChainedOperatorsOnEveryEngine ==
  (ty.kind # None /\ ty.by = "operator"
     /\ (ty.kind = "Reverse" => has_rbegin(ty.args[1]))) =>
    /\ ty.ok
    /\ ty.t = TypeOf(ty.kind, ty.args[1], NoArg, "moved", None)

-----------------------------------------------------------------------------
(* The view a chained operator was called on.                              *)

\* the consumed view: the object at A that MoveSelf() moved from
Original == MoveView(inner, "D", "A")

OriginalAlive == \A s \in 1..2 : mem[AddrOf["A"][s]].life # "dead"

\* the values a forward traversal of a view over containers reaches
Reached(v) ==
  LET s == ViewSeq(v, FALSE, 0) IN [i \in 1..Len(s) |-> ValueOf(s[i])]

Absorbed(v) == \A s \in 1..2 : v.src[s] \in {AddrOf["A"][s], None}
Borrowed(v) == \A s \in 1..2 : v.src[s] \in {AddrOf["caller"][s], None}

\* C21 as claimed: after a chained operator the original view no longer
\* reaches the source's elements, whether it borrowed or absorbed its source.
C21_OriginalUnusable ==
  (consumed /\ OriginalAlive) => Reached(Original) = <<>>

\* C21: a chained operator moves the view into the view it returns, which
\* reaches the elements the original reached; an original that had absorbed
\* its source is left with an empty container and reaches nothing, an
\* original that borrowed its source still reaches the same elements.
C21_OriginalMovedFrom ==
  /\ [](consumed /\ OriginalAlive =>
          /\ Absorbed(Original) => Reached(Original) = <<>>
          /\ Borrowed(Original) => Reached(Original) = Reached(inner))
  /\ [][ChainedOperator =>
          \A s \in 1..2 :
             /\ view.src[s] = AddrOf["A"][s] =>
                  /\ inner'.src[s] = AddrOf["D"][s]
                  /\ mem'[AddrOf["D"][s]].elems = mem[AddrOf["A"][s]].elems
                  /\ mem'[AddrOf["A"][s]].elems = <<>>
             /\ view.src[s] = AddrOf["caller"][s] =>
                  /\ inner'.src[s] = view.src[s]
                  /\ mem'[view.src[s]] = mem[view.src[s]]]_vars

C21_Witness ==
  /\ consumed
  /\ OriginalAlive
  /\ inner.src[1] = AddrOf["D"][1]
  /\ Len(Reached(inner)) >= 2
  /\ Reached(Original) = <<>>

C21_Counterexample ==
  /\ consumed
  /\ OriginalAlive
  /\ inner.src[1] = AddrOf["caller"][1]
  /\ Reached(Original) # <<>>

-----------------------------------------------------------------------------
(* Traversals of Chain views, with the loop running to its end.            *)

\* Chain views over an outer collection of at most MaxSmall inner collections
ChainSources ==
  /\ Init
  /\ view.kind = "Chain"
  /\ Small(MaxSmall)

NextChain ==
  \/ Begin
  \/ RBegin
  \/ ChainedStep
  \/ Finish

\* for (x : Chain(...)) is not abandoned: the loop takes its next step
SpecChain == ChainSources /\ [][NextChain]_vars /\ WF_vars(NextChain)

\* C22: constructing a Chain cursor and advancing one that is not at end
\* terminate: the skip loop advances the outer cursor at most to the outer
\* end (at most once per remaining outer element), and the traversal from
\* begin() reaches end() after exactly (sum of inner sizes) advances.
C22_ChainTerminates ==
  /\ [][(Begin \/ RBegin) => (it'.outer_begin \in 0..Len(S1)
                               /\ it'.outer_end = Len(S1))]_vars
  /\ [][ChainedStep => (it'.outer_begin >= it.outer_begin
                        /\ it'.outer_begin - it.outer_begin
                             <= it.outer_end - it.outer_begin)]_vars
  /\ <>(pc = "done" /\ advances = SumLen(S1))

C22_Witness ==
  /\ Done("Chain", FALSE)
  /\ Len(S1) = 3
  /\ Len(S1[1]) = 2
  /\ S1[2] = <<>>
  /\ S1[3] = <<>>
  /\ advances = SumLen(S1)

-----------------------------------------------------------------------------
(* Filter at the end of its source.                                        *)

FilterSources ==
  /\ Init
  /\ view.kind = "Filter"

NextFilter ==
  \/ Begin
  \/ RBegin
  \/ FilterStep
  \/ Finish

\* the traversals of Filter views, forward and reverse
SpecFilter == FilterSources /\ [][NextFilter]_vars

NoMatch == \A i \in 1..Len(S1) : S1[i] \notin view.f

\* C23: a Filter cursor never passes the source's end and never evaluates
\* the predicate at the end position.  Over a source without a matching
\* element begin() equals end(), the traversal is empty and the underlying
\* cursor rests at the source's end; the skip after the last matching
\* element ends there as well.
C23_FilterStopsAtEnd ==
  (view.kind = "Filter" /\ pc \in {"loop", "done"}) =>
    LET cs == CurSources
        n == Len(cs[1])
        ctor == SkipFilteredEntries_evals([begin |-> 0, end |-> n], cs, view.f)
        step == IF it.begin < n
                  THEN SkipFilteredEntries_evals([it EXCEPT !.begin = @ + 1],
                                                 cs, view.f)
                  ELSE <<>>
        last == /\ it.begin < n
                /\ \A j \in (it.begin + 2)..n : ValueOf(cs[1][j]) \notin view.f
    IN /\ \A k \in DOMAIN ctor : ctor[k] < n
       /\ \A k \in DOMAIN step : step[k] < n
       /\ it.begin <= n
       /\ it.end = n
       /\ end.begin = n
       /\ NoMatch => /\ it = end
                     /\ it.begin = n
                     /\ out = <<>>
                     /\ Len(ctor) = n
       /\ last => /\ FilterIterator_Inc(it, cs, view.f) = end
                  /\ Len(step) = n - it.begin - 1

C23_Witness ==
  /\ Done("Filter", FALSE)
  /\ Len(S1) >= 3
  /\ view.f # {}
  /\ NoMatch
  /\ out = <<>>
  /\ it.begin = Len(S1)

-----------------------------------------------------------------------------
(* AsReferences over plain pointers and over unique_ptr.                   *)

\* AsReferences views over at most MaxSmall pointers
ReferencedSources ==
  /\ Init
  /\ view.kind = "AsReferences"
  /\ Small(MaxSmall)

NextReferenced ==
  \/ Begin
  \/ RBegin
  \/ ReferencedStep
  \/ DoubleStep
  \/ Finish

\* traversals of AsReferences views that read or double each element
SpecReferenced == ReferencedSources /\ [][NextReferenced]_vars

\* the collection of unique_ptr whose elements point where the plain
\* pointers of S1 point, as its forward or reverse iterators run over it
UniqueCollection(r) ==
  LET fwd == [i \in 1..Len(S1) |-> UniquePtr(S1[i])]
  IN <<IF r THEN Rev(fwd) ELSE fwd, <<>>>>

\* for (x : AsReferences(collection of unique_ptr)) collecting every x
RECURSIVE ReferencedUnique_Walk(_, _, _, _)
ReferencedUnique_Walk(i, e, cs, acc) ==
  IF ReferencedUniqueIterator_Eq(i, e)
    THEN acc
    ELSE ReferencedUnique_Walk(ReferencedUniqueIterator_Inc(i), e, cs,
                               Append(acc, ReferencedUniqueIterator_Deref(i, cs)))

ReferencedUnique_Seq(r) ==
  LET cs == UniqueCollection(r)
  IN ReferencedUnique_Walk(ReferencedUniqueIterator(0, Len(cs[1])),
                           ReferencedUniqueIterator(Len(cs[1]), Len(cs[1])),
                           cs, <<>>)

\* C24: AsReferences over plain pointers and over unique_ptr that point at
\* the same values yield the same pointees in collection order, forward and
\* backward; a write through the cursor changes the pointee and leaves the
\* pointers stored in the collection as they were.
C24_PlainAndUniquePointers ==
  /\ [][Finish /\ view.kind = "AsReferences" =>
          /\ out = ReferencedUnique_Seq(rev)
          /\ out = [k \in 1..Len(S1) |->
                      Pointee(S1[IF rev THEN Len(S1) + 1 - k ELSE k])]]_vars
  /\ [][DoubleStep /\ view.kind = "AsReferences" =>
          LET x == ReferencedIterator_Deref(it, CurSources)
              u == ReferencedUniqueIterator_Deref(it, UniqueCollection(rev))
          IN /\ u = x
             /\ mem'[view.src[1]] = mem[view.src[1]]
             /\ mem'[Heap].elems[x.p] = 2 * mem[Heap].elems[x.p]
             /\ \A q \in DOMAIN mem[Heap].elems :
                  q # x.p => mem'[Heap].elems[q] = mem[Heap].elems[q]]_vars

C24_Witness ==
  /\ Done("AsReferences", TRUE)
  /\ Len(S1) >= 3
  /\ S1[1] # S1[3]
  /\ out = ReferencedUnique_Seq(TRUE)
  /\ mem[Heap].elems[S1[1]] # S1[1]

-----------------------------------------------------------------------------
(* Successive traversals of one view.                                      *)

\* the loop has ended and the caller goes on with the same view; what the
\* traversal yielded is kept for comparison.  (A Map whose function writes
\* is not traversed again: each of its traversals is a write.)
Restart ==
  /\ pc = "done"
  /\ ~(view.kind = "Map" /\ view.f \notin PureFunctions)
  /\ prev' = <<[rev |-> rev, out |-> out]>>
  /\ pc' = "view"
  /\ rev' = FALSE
  /\ it' = NoIt
  /\ end' = NoIt
  /\ out' = <<>>
  /\ advances' = 0
  /\ isz' = {}
  /\ sz' = {}
  /\ emp' = {}
  /\ other' = NoOther
  /\ calls' = <<>>
  /\ UNCHANGED <<mem, view, inner, consumed, ty>>

NextAgain ==
  \/ Traversal
  \/ Restart

SpecAgain == SmallSources /\ [][NextAgain]_vars

\* the user's function or predicate does not write
ReadOnly == ~(view.kind = "Map" /\ view.f \notin PureFunctions)

-----------------------------------------------------------------------------
(* The invariants of Chain and Filter cursors.                             *)

\* the inner cursor of i runs over the inner collection the outer cursor
\* denotes and is not at that collection's end
DenotesElement(i, cs) ==
  /\ i.outer_begin < Len(cs[1])
  /\ i.inner_begin.c = i.outer_begin + 1
  /\ i.inner_end = [c |-> i.outer_begin + 1,
                    k |-> Len(cs[1][i.outer_begin + 1])]
  /\ i.inner_begin.k \in 0..(Len(cs[1][i.outer_begin + 1]) - 1)

\* C26: every Chain cursor, after construction and after every advance, is
\* either at end (its outer cursor is at the outer end) or its inner cursor
\* lies inside the inner sequence the outer cursor denotes, before that
\* sequence's end.
C26_ChainCursorInvariant ==
  (view.kind = "Chain" /\ pc \in {"loop", "done"}) =>
    /\ it.outer_end = Len(CurSources[1])
    /\ IsAtEnd(it) \/ DenotesElement(it, CurSources)
    /\ IsAtEnd(it) => it.outer_begin = Len(CurSources[1])
    /\ IsAtEnd(end)

C26_Witness ==
  /\ view.kind = "Chain"
  /\ pc = "loop"
  /\ ~rev
  /\ advances >= 1
  /\ Len(S1) = 3
  /\ it.outer_begin = 2
  /\ S1[2] = <<>>
  /\ DenotesElement(it, CurSources)

\* C27: every Filter cursor, forward or reverse, after construction and
\* after every advance over an unmodified source, is either at the source's
\* end or denotes an element that satisfies the predicate.
C27_FilterCursorInvariant ==
  (view.kind = "Filter" /\ pc \in {"loop", "done"}) =>
    /\ it.begin \in 0..it.end
    /\ IsEnd(it) \/ ValueOf(FilterIterator_Deref(it, CurSources)) \in view.f
    /\ IsEnd(end)

C27_Witness ==
  /\ view.kind = "Filter"
  /\ pc = "loop"
  /\ rev
  /\ advances >= 1
  /\ ~IsEnd(it)
  /\ it.begin >= 2
  /\ ValueOf(CurSources[1][it.begin]) \notin view.f
  /\ ValueOf(FilterIterator_Deref(it, CurSources)) \in view.f

-----------------------------------------------------------------------------
(* Writes to the source between the uses of a view.                        *)

\* references to the elements stored in cell a
ElementsOf(a) ==
  IF view.kind = "Chain"
    THEN UNION {{ChainRef(a, o, i) : i \in DOMAIN mem[a].elems[o]} :
                  o \in DOMAIN mem[a].elems}
    ELSE {Ref(a, i) : i \in DOMAIN mem[a].elems}

\* collection[i] = w on a container the view borrowed
Overwrite ==
  /\ pc = "view"
  /\ \E s \in 1..2 :
       /\ view.src[s] = AddrOf["caller"][s]
       /\ \E x \in ElementsOf(view.src[s]), w \in Vals :
            /\ ValueOf(x) # w
            /\ mem' = Store(mem, x, w)
  /\ UNCHANGED <<view, inner, consumed, pc, rev, it, end, out, advances, isz,
                 sz, emp, other, calls, ty, prev>>

\* int& x = *cursor; x = w; for a cursor of the view
CursorWrite ==
  /\ pc = "view"
  /\ view.kind \in Writable
  /\ LET items == ViewSeq(view, FALSE, 0)
     IN \E k \in DOMAIN items, w \in Vals :
          /\ ValueOf(items[k]) # w
          /\ mem' = Store(mem, Target(items[k]), w)
  /\ UNCHANGED <<view, inner, consumed, pc, rev, it, end, out, advances, isz,
                 sz, emp, other, calls, ty, prev>>

NextOverwrite ==
  \/ Next
  \/ Overwrite
  \/ CursorWrite
  \/ Restart

\* containers of at most MaxComposed elements in all, those of the inner
\* collections of a Chain included
OverwriteSources ==
  /\ Init
  /\ Small(MaxComposed)
  /\ view.kind = "Chain" => SumLen(S1) <= MaxComposed

SpecOverwrite == OverwriteSources /\ [][NextOverwrite]_vars

ValuesOf(items) == [k \in 1..Len(items) |-> ValueOf(items[k])]

\* C28: a view holds no copy of its source's elements or of results derived
\* from them: after elements were overwritten, directly or through a
\* cursor, the next traversal and the next size() and empty() are those of
\* the source's current contents; Filter includes exactly the elements that
\* satisfy the predicate now.
C28_NoCachedCopy ==
  (pc = "done" /\ ReadOnly) =>
    /\ Len(out) = Visited
    /\ ValuesOf(out) = ValuesOf(ViewSeq(view, rev, Visited))
    /\ view.kind = "Filter" => \A k \in 1..Len(out) : ValueOf(out[k]) \in view.f
    /\ sz # {} => sz = {Visited}
    /\ emp # {} => emp = {Visited = 0}

C28_Witness ==
  /\ Done("Filter", FALSE)
  /\ prev # <<>>
  /\ ~prev[1].rev
  /\ Len(prev[1].out) = 2
  /\ Len(out) = 1
  /\ Len(S1) = 2
  /\ sz = {1}
  /\ emp = {FALSE}
  /\ mem[view.src[1]].life = "live"

-----------------------------------------------------------------------------
(* Two cursors of one view, advanced in any interleaving.                  *)

\* a step that advances both cursors, as if they shared their position
OtherStep_shared ==
  /\ pc = "loop"
  /\ other # NoOther
  /\ ~ItEq(view.kind, other.it, end)
  /\ other' = [it |-> ItInc(view.kind, other.it, CurSources, view.f),
               advances |-> other.advances + 1]
  /\ it' = other'.it
  /\ UNCHANGED <<mem, view, inner, consumed, pc, rev, end, out, advances,
                 isz, sz, emp, calls, ty, prev>>

\* ++other
OtherStep ==
  /\ pc = "loop"
  /\ other # NoOther
  /\ ~ItEq(view.kind, other.it, end)
  /\ other' = [it |-> ItInc(view.kind, other.it, CurSources, view.f),
               advances |-> other.advances + 1]
  /\ UNCHANGED <<mem, view, inner, consumed, pc, rev, it, end, out, advances,
                 isz, sz, emp, calls, ty, prev>>

NextInterleaved ==
  \/ Traversal
  \/ Copy
  \/ OtherStep

SpecInterleaved == SmallSources /\ [][NextInterleaved]_vars

AtEnd(c) == ItEq(view.kind, c, end)
Yields(c) == ItDeref(view.kind, c, CurSources, view.f)

\* C29: two cursors of one view are independent.  Advancing one leaves the
\* other where it is, yielding the item it yielded before (the Item of an
\* Enumerate cursor and the ZippedValue of a Zip cursor are its own), and
\* each cursor visits every element of the traversal, in order, and reaches
\* end() after as many advances as the view has elements.
C29_CursorsAreIndependent ==
  /\ [][OtherStep => (it' = it /\ mem' = mem /\ view' = view /\ end' = end)]_vars
  /\ [][(advances' = advances + 1) =>
          (other' = other /\ view' = view /\ end' = end
           /\ (ReadOnly => mem' = mem))]_vars
  /\ [](TwoCursors =>
          /\ AtEnd(other.it) <=> (other.advances = Visited)
          /\ other.advances <= Visited
          /\ other.advances < Len(out) =>
                Yields(other.it) = out[other.advances + 1])

C29_Witness ==
  /\ TwoCursors
  /\ view.kind = "Enumerate"
  /\ pc = "loop"
  /\ ~rev
  /\ advances = 1
  /\ other.advances = 3
  /\ AtEnd(other.it)
  /\ Yields(it).position = 1

-----------------------------------------------------------------------------
(* The underlying cursors during a traversal.                              *)

\* the loop is about to dereference and advance `it`
InBody == pc = "loop" /\ ~ItEq(view.kind, it, end)

\* the item the cursor holds was set at the last position before the end
LastItem(default) == IF out = <<>> THEN default ELSE out[Len(out)]

\* C30: in a traversal from begin() (rbegin()) that advances while the
\* cursor differs from end() (rend()), no underlying cursor is dereferenced
\* or advanced at its end: none is ever beyond its end, the one the loop
\* body uses is before its end, Join uses and advances the second cursor
\* only when the first is at its end, Zip advances only while neither is at
\* its end, and Enumerate and Zip set their item only when not at end.
C30_NoUseOfCursorAtEnd ==
  pc \in {"loop", "done"} =>
    LET cs == CurSources
    IN CASE view.kind = "Join" ->
              /\ it.first \in 0..Len(cs[1])
              /\ it.second \in 0..Len(cs[2])
              /\ it.first_end = Len(cs[1])
              /\ it.second_end = Len(cs[2])
              /\ it.second > 0 => it.first = it.first_end
              /\ InBody => IF it.first # it.first_end
                             THEN it.first < Len(cs[1])
                             ELSE it.second < Len(cs[2])
         [] view.kind = "Zip" ->
              /\ it.first_begin \in 0..Len(cs[1])
              /\ it.second_begin \in 0..Len(cs[2])
              /\ it.first_begin = it.second_begin
              /\ InBody => /\ it.first_begin < Len(cs[1])
                           /\ it.second_begin < Len(cs[2])
              /\ ZipIsAtEnd(it) => it.value = LastItem(DefaultZippedValue)
         [] view.kind = "Enumerate" ->
              /\ it.begin \in 0..Len(cs[1])
              /\ it.end = Len(cs[1])
              /\ InBody => it.begin < Len(cs[1])
              /\ it.begin = it.end => it.item = LastItem(DefaultItem)
         [] view.kind = "Chain" ->
              /\ it.outer_begin \in 0..Len(cs[1])
              /\ InBody => DenotesElement(it, cs)
         [] OTHER ->
              /\ it.begin \in 0..Len(cs[1])
              /\ InBody => it.begin < Len(cs[1])

C30_Witness ==
  /\ view.kind = "Join"
  /\ InBody
  /\ rev
  /\ it.first = it.first_end
  /\ it.first >= 1
  /\ it.second = 1
  /\ it.second_end >= 2

====
